---- MODULE Spec2Model ----
(***************************************************************************)
(* Posting lists of the full-text index                                    *)
(* (lib/segment/src/index/field_index/full_text_index/posting_list.rs):    *)
(* the mutable PostingList, the CompressedPostingList built from it and    *)
(* the CompressedPostingVisitor that probes a compressed list.             *)
(*                                                                         *)
(* Scaling.  BitPacker4x::BLOCK_LEN is 128 and a DocId is a u32.  The      *)
(* model keeps every algorithm as written and scales the two sizes: a      *)
(* block holds BLOCK_LEN DocIds and DocIds range over 0..MaxDocId.  The    *)
(* byte arena is modelled one bit per cell: in the source a cell holds 8   *)
(* bits and BLOCK_LEN is a multiple of 8, so num_bits * BLOCK_LEN / 8 is   *)
(* exact; the scaled BLOCK_LEN is no multiple of 8, so sizes are counted   *)
(* in bits and the source's "* 8" and "/ 8" are the factor 1 here.         *)
(* Offsets stay far below 2^32, so the cast "as u32" changes nothing.      *)
(***************************************************************************)
EXTENDS Integers, Sequences, FiniteSets

\* bitpacking::BitPacker4x::BLOCK_LEN, scaled down from 128
BLOCK_LEN == 3

\* largest DocId (PointOffsetType) fed to the program
MaxDocId == 9

DocIds == 0..MaxDocId

\* Option<T>: None, Some(x)
None == <<>>

Some(x) == <<x>>

VARIABLES
    list,        \* PostingList.list: Vec<PointOffsetType>
    members,     \* the set of DocIds inserted and not removed since
    compressed,  \* Option<CompressedPostingList>: the result of new(list)
    visitor,     \* Option<CompressedPostingVisitor> borrowing compressed
    out          \* the last call and what it returned

vars == <<list, members, compressed, visitor, out>>

----------------------------------------------------------------------------
(* Vec and slice primitives *)

\* slice::binary_search: Ok(index of a match) or Err(insertion point), 0-based
RECURSIVE BinarySearchFrom(_, _, _, _)
BinarySearchFrom(s, x, left, right) ==
    IF left >= right THEN [ok |-> FALSE, idx |-> left]
    ELSE LET mid == left + ((right - left) \div 2)
             e   == s[mid + 1]
         IN  IF e = x THEN [ok |-> TRUE, idx |-> mid]
             ELSE IF e < x THEN BinarySearchFrom(s, x, mid + 1, right)
             ELSE BinarySearchFrom(s, x, left, mid)

BinarySearch(s, x) == BinarySearchFrom(s, x, 0, Len(s))

\* Vec::insert(index, element), index 0-based
VecInsert(s, index, element) ==
    SubSeq(s, 1, index) \o <<element>> \o SubSeq(s, index + 1, Len(s))

\* Vec::remove(index), index 0-based
VecRemove(s, index) ==
    SubSeq(s, 1, index) \o SubSeq(s, index + 2, Len(s))

\* slice::sort_unstable on DocIds (an insertion sort: equal keys are equal values)
RECURSIVE SortUnstable(_)
SortUnstable(s) ==
    IF s = <<>> THEN <<>>
    ELSE LET rest == SortUnstable(Tail(s))
             r    == BinarySearch(rest, Head(s))
         IN  VecInsert(rest, r.idx, Head(s))

----------------------------------------------------------------------------
(* PostingList *)

PostingList_default == <<>>

PostingList_new(idx) == <<idx>>

\* a plausible slip: the element is inserted even when it is already there
PostingList_insert_dup(l, idx) ==
    VecInsert(l, BinarySearch(l, idx).idx, idx)

PostingList_insert(l, idx) ==
    LET r == BinarySearch(l, idx)
    IN  IF ~r.ok THEN VecInsert(l, r.idx, idx) ELSE l

\* a plausible slip: the Err case removes the element at the insertion point
PostingList_remove_any(l, idx) ==
    LET r == BinarySearch(l, idx)
    IN  IF r.idx < Len(l) THEN VecRemove(l, r.idx) ELSE l

PostingList_remove(l, idx) ==
    LET r == BinarySearch(l, idx)
    IN  IF r.ok THEN VecRemove(l, r.idx) ELSE l

PostingList_len(l) == Len(l)

PostingList_contains(l, val) == BinarySearch(l, val).ok

PostingList_iter(l) == l

----------------------------------------------------------------------------
(* bitpacking::BitPacker4x, by its contract: frame-of-reference packing of *)
(* the deltas of one sorted block at a uniform bit width                   *)

\* number of bits needed to write n
RECURSIVE BitLen(_)
BitLen(n) == IF n = 0 THEN 0 ELSE 1 + BitLen(n \div 2)

MaxOf(S) == CHOOSE m \in S : \A x \in S : x <= m

\* delta of each element to its predecessor, initial being that of block[0]
Deltas(initial, block) ==
    [i \in 1..Len(block) |->
        block[i] - (IF i = 1 THEN initial ELSE block[i - 1])]

num_bits_sorted(initial, block) ==
    MaxOf({BitLen(Deltas(initial, block)[i]) : i \in 1..Len(block)})

\* num_bits * BLOCK_LEN / 8 bytes in the source; bits here
compressed_block_size(num_bits) == num_bits * BLOCK_LEN

\* the low num_bits bits of n, least significant first
ToBits(n, num_bits) == [k \in 1..num_bits |-> (n \div (2 ^ (k - 1))) % 2]

RECURSIVE FromBits(_)
FromBits(bits) ==
    IF bits = <<>> THEN 0 ELSE Head(bits) + 2 * FromBits(Tail(bits))

RECURSIVE PackDeltas(_, _, _)
PackDeltas(deltas, i, num_bits) ==
    IF i > Len(deltas) THEN <<>>
    ELSE ToBits(deltas[i], num_bits) \o PackDeltas(deltas, i + 1, num_bits)

\* the cells compress_sorted writes to its output slice
compress_sorted(initial, block, num_bits) ==
    PackDeltas(Deltas(initial, block), 1, num_bits)

RECURSIVE UnpackFrom(_, _, _, _)
UnpackFrom(prev, cells, i, num_bits) ==
    IF i > BLOCK_LEN THEN <<>>
    ELSE LET cur == prev + FromBits(SubSeq(cells, (i - 1) * num_bits + 1,
                                           i * num_bits))
         IN  <<cur>> \o UnpackFrom(cur, cells, i + 1, num_bits)

\* the BLOCK_LEN values decompress_sorted writes to its output
decompress_sorted(initial, cells, num_bits) ==
    UnpackFrom(initial, cells, 1, num_bits)

----------------------------------------------------------------------------
(* CompressedPostingList *)

CompressedPostingList_default ==
    [len |-> 0, last_doc_id |-> 0, data |-> <<>>, chunks |-> <<>>]

\* a plausible slip: the padding is a value past the last DocId
Pad_past_last(l) ==
    LET last == l[Len(l)]
        n    == (BLOCK_LEN - (Len(l) % BLOCK_LEN)) % BLOCK_LEN
    IN  l \o [i \in 1..n |-> last + 1]

\* posting_list.list after the padding loop
Pad(l) ==
    LET last == l[Len(l)]
        n    == (BLOCK_LEN - (Len(l) % BLOCK_LEN)) % BLOCK_LEN
    IN  l \o [i \in 1..n |-> last]

\* slice::chunks_exact(BLOCK_LEN)
ChunksExact(l) ==
    [k \in 1..(Len(l) \div BLOCK_LEN) |->
        SubSeq(l, (k - 1) * BLOCK_LEN + 1, k * BLOCK_LEN)]

\* a plausible slip: the size of the last chunk is taken to be data.len()
get_chunk_size_last_whole(chunks, data, chunk_index) ==
    IF chunk_index + 1 < Len(chunks)
    THEN chunks[chunk_index + 2].offset - chunks[chunk_index + 1].offset
    ELSE Len(data)

get_chunk_size(chunks, data, chunk_index) ==
    IF chunk_index + 1 < Len(chunks)
    THEN chunks[chunk_index + 2].offset - chunks[chunk_index + 1].offset
    ELSE Len(data) - chunks[chunk_index + 1].offset

\* the first loop of new: the chunk directory and the final data_size
RECURSIVE FillChunks(_, _, _, _)
FillChunks(blocks, k, chunks, data_size) ==
    IF k > Len(blocks) THEN [chunks |-> chunks, data_size |-> data_size]
    ELSE LET chunk_data == blocks[k]
             initial    == chunk_data[1]
             chunk_bits == num_bits_sorted(initial, chunk_data)
             chunk_size == compressed_block_size(chunk_bits)
         IN  FillChunks(blocks, k + 1,
                 Append(chunks, [initial |-> initial, offset |-> data_size]),
                 data_size + chunk_size)

\* &mut data[offset .. offset + Len(cells)] overwritten by cells
WriteSlice(data, offset, cells) ==
    [i \in 1..Len(data) |->
        IF i > offset /\ i <= offset + Len(cells)
        THEN cells[i - offset] ELSE data[i]]

\* the second loop of new: the arena, and whether it panics: on a slice
\* data[offset .. offset + chunk_size] that is no slice of data, or on the
\* round-trip check
RECURSIVE FillData(_, _, _, _, _)
FillData(blocks, chunks, k, data, panic) ==
    IF k > Len(blocks) \/ panic THEN [data |-> data, panic |-> panic]
    ELSE IF get_chunk_size(chunks, data, k - 1) < 0
            \/ chunks[k].offset + get_chunk_size(chunks, data, k - 1) > Len(data)
    THEN [data |-> data, panic |-> TRUE]
    ELSE LET chunk_data   == blocks[k]
             chunk        == chunks[k]
             chunk_size   == get_chunk_size(chunks, data, k - 1)
             chunk_bits   == chunk_size \div BLOCK_LEN
             written      == WriteSlice(data, chunk.offset,
                                 compress_sorted(chunk.initial, chunk_data,
                                                 chunk_bits))
             decompressed == decompress_sorted(chunk.initial,
                                 SubSeq(written, chunk.offset + 1,
                                        chunk.offset + chunk_size),
                                 chunk_bits)
         IN  FillData(blocks, chunks, k + 1, written,
                      panic \/ decompressed # chunk_data)

\* a plausible slip: len is read after the padding loop
NewLen_after_padding(posting_list) == Len(Pad(posting_list))

\* the value of len that new stores
NewLen(posting_list) == PostingList_len(posting_list)

\* the value of last_doc_id that new stores
NewLastDocId(posting_list) == posting_list[Len(posting_list)]

\* what new(posting_list) builds, and whether it panics on the way
NewBuild(posting_list) ==
    LET blocks == ChunksExact(Pad(SortUnstable(posting_list)))
        dir    == FillChunks(blocks, 1, <<>>, 0)
        filled == FillData(blocks, dir.chunks, 1,
                           [i \in 1..dir.data_size |-> 0], FALSE)
    IN  [panic |-> filled.panic,
         self  |-> [len         |-> NewLen(posting_list),
                    last_doc_id |-> NewLastDocId(posting_list),
                    data        |-> filled.data,
                    chunks      |-> dir.chunks]]

CompressedPostingList_new(posting_list) ==
    IF posting_list = <<>>
    THEN [panic |-> FALSE, self |-> CompressedPostingList_default]
    ELSE NewBuild(posting_list)

CompressedPostingList_len(self) == self.len

decompress_chunk(self, chunk_index) ==
    LET chunk      == self.chunks[chunk_index + 1]
        chunk_size == get_chunk_size(self.chunks, self.data, chunk_index)
        chunk_bits == chunk_size \div BLOCK_LEN
    IN  decompress_sorted(chunk.initial,
            SubSeq(self.data, chunk.offset + 1, chunk.offset + chunk_size),
            chunk_bits)

\* a plausible slip: the lower bound of the range gate made strict
is_in_postings_range_strict(self, val) ==
    /\ Len(self.chunks) > 0
    /\ val > self.chunks[1].initial
    /\ val <= self.last_doc_id

\* a plausible slip: the upper bound of the range gate left out
is_in_postings_range_no_upper(self, val) ==
    /\ Len(self.chunks) > 0
    /\ val >= self.chunks[1].initial

is_in_postings_range(self, val) ==
    /\ Len(self.chunks) > 0
    /\ val >= self.chunks[1].initial
    /\ val <= self.last_doc_id

\* chunks[start ..], by the initial values the search compares
Initials(chunks, start) ==
    [i \in 1..(Len(chunks) - start) |-> chunks[start + i].initial]

\* a plausible slip: the Err case keeps idx instead of the chunk before it
find_chunk_err_idx(self, doc_id, start_chunk) ==
    LET start == IF start_chunk # None THEN start_chunk[1] ELSE 0
        r     == BinarySearch(Initials(self.chunks, start), doc_id)
    IN  Some(r.idx)

find_chunk(self, doc_id, start_chunk) ==
    LET start == IF start_chunk # None THEN start_chunk[1] ELSE 0
        r     == BinarySearch(Initials(self.chunks, start), doc_id)
    IN  IF r.ok THEN Some(r.idx)
        ELSE IF r.idx > 0 THEN Some(r.idx - 1) ELSE None

RECURSIVE FlatMapChunks(_, _)
FlatMapChunks(self, chunk_index) ==
    IF chunk_index >= Len(self.chunks) THEN <<>>
    ELSE decompress_chunk(self, chunk_index)
             \o FlatMapChunks(self, chunk_index + 1)

\* Iterator::take(n)
Take(s, n) == SubSeq(s, 1, IF n < Len(s) THEN n ELSE Len(s))

\* a plausible slip: the padding of the last chunk is not cut off
iter_without_take(self) == FlatMapChunks(self, 0)

\* a plausible slip: one element too few is taken
iter_take_one_less(self) == Take(FlatMapChunks(self, 0), self.len - 1)

CompressedPostingList_iter(self) == Take(FlatMapChunks(self, 0), self.len)

\* contains, with whether it decoded a chunk on the way and whether it
\* panicked on a chunk index out of bounds
ContainsRun(self, val) ==
    IF ~is_in_postings_range(self, val)
    THEN [ret |-> FALSE, decoded |-> FALSE, panic |-> FALSE]
    ELSE LET chunk_index == find_chunk(self, val, None)
         IN  IF chunk_index = None
             THEN [ret |-> FALSE, decoded |-> FALSE, panic |-> FALSE]
             ELSE IF chunk_index[1] >= Len(self.chunks)
             THEN [ret |-> FALSE, decoded |-> FALSE, panic |-> TRUE]
             ELSE IF self.chunks[chunk_index[1] + 1].initial = val
             THEN [ret |-> TRUE, decoded |-> FALSE, panic |-> FALSE]
             ELSE [ret |-> BinarySearch(
                               decompress_chunk(self, chunk_index[1]),
                               val).ok,
                   decoded |-> TRUE, panic |-> FALSE]

CompressedPostingList_contains(self, val) == ContainsRun(self, val).ret

----------------------------------------------------------------------------
(* CompressedPostingVisitor *)

\* last_checked exists in cfg(test) builds only; in the other builds the model
\* keeps it as the record of the previous probe
CompressedPostingVisitor_new ==
    [decompressed_chunk     |-> [i \in 1..BLOCK_LEN |-> 0],
     decompressed_chunk_idx |-> None,
     last_checked           |-> None]

\* a return of contains that leaves the cached chunk alone
Answer(self, ret) ==
    [ret |-> ret, panic |-> FALSE, start |-> None, found |-> None,
     decoded |-> FALSE,
     decompressed_chunk     |-> self.decompressed_chunk,
     decompressed_chunk_idx |-> self.decompressed_chunk_idx]

\* a plausible slip: a hit on a chunk's initial moves the cached index to that
\* chunk although nothing is decoded
SearchAndDecode_idx_on_hit(postings, self, val) ==
    LET start == IF self.decompressed_chunk_idx # None
                 THEN self.decompressed_chunk_idx[1] ELSE 0
        found == find_chunk(postings, val, self.decompressed_chunk_idx)
    IN  IF start > Len(postings.chunks)
        THEN [Answer(self, FALSE) EXCEPT !.panic = TRUE, !.start = Some(start)]
        ELSE IF found = None
        THEN [Answer(self, FALSE) EXCEPT !.start = Some(start)]
        ELSE IF found[1] >= Len(postings.chunks)
        THEN [Answer(self, FALSE) EXCEPT !.panic = TRUE,
                                         !.start = Some(start), !.found = found]
        ELSE IF postings.chunks[found[1] + 1].initial = val
        THEN [Answer(self, TRUE) EXCEPT !.start = Some(start), !.found = found,
                                        !.decompressed_chunk_idx = found]
        ELSE LET chunk == decompress_chunk(postings, found[1])
             IN  [ret |-> BinarySearch(chunk, val).ok, panic |-> FALSE,
                  start |-> Some(start), found |-> found, decoded |-> TRUE,
                  decompressed_chunk     |-> chunk,
                  decompressed_chunk_idx |-> found]

\* lines 284-301 of contains: the directory search and what follows it.
\* start is the slice start find_chunk uses and found what it returned; panic
\* is an index out of bounds (chunks[start..], chunks[i], the assert of
\* get_chunk_size).
SearchAndDecode(postings, self, val) ==
    LET start == IF self.decompressed_chunk_idx # None
                 THEN self.decompressed_chunk_idx[1] ELSE 0
        found == find_chunk(postings, val, self.decompressed_chunk_idx)
    IN  IF start > Len(postings.chunks)
        THEN [Answer(self, FALSE) EXCEPT !.panic = TRUE, !.start = Some(start)]
        ELSE IF found = None
        THEN [Answer(self, FALSE) EXCEPT !.start = Some(start)]
        ELSE IF found[1] >= Len(postings.chunks)
        THEN [Answer(self, FALSE) EXCEPT !.panic = TRUE,
                                         !.start = Some(start), !.found = found]
        ELSE IF postings.chunks[found[1] + 1].initial = val
        THEN [Answer(self, TRUE) EXCEPT !.start = Some(start), !.found = found]
        ELSE LET chunk == decompress_chunk(postings, found[1])
             IN  [ret |-> BinarySearch(chunk, val).ok, panic |-> FALSE,
                  start |-> Some(start), found |-> found, decoded |-> TRUE,
                  decompressed_chunk     |-> chunk,
                  decompressed_chunk_idx |-> found]

\* a plausible slip: the probe is compared with the first element of the
\* decoded chunk instead of the last
contains_first_element(postings, self, val) ==
    IF ~is_in_postings_range(postings, val) THEN Answer(self, FALSE)
    ELSE IF self.decompressed_chunk_idx # None
            /\ val < self.decompressed_chunk[1]
    THEN Answer(self, BinarySearch(self.decompressed_chunk, val).ok)
    ELSE IF self.decompressed_chunk_idx # None
            /\ val = self.decompressed_chunk[1]
    THEN Answer(self, TRUE)
    ELSE SearchAndDecode(postings, self, val)

\* a plausible slip: a probe below the last element of the decoded chunk is
\* answered true without the binary search
contains_less_is_true(postings, self, val) ==
    IF ~is_in_postings_range(postings, val) THEN Answer(self, FALSE)
    ELSE IF self.decompressed_chunk_idx # None
            /\ val <= self.decompressed_chunk[BLOCK_LEN]
    THEN Answer(self, TRUE)
    ELSE SearchAndDecode(postings, self, val)

\* lines 261-302 of contains
CompressedPostingVisitor_contains(postings, self, val) ==
    IF ~is_in_postings_range(postings, val) THEN Answer(self, FALSE)
    ELSE IF self.decompressed_chunk_idx # None
            /\ val < self.decompressed_chunk[BLOCK_LEN]
    THEN Answer(self, BinarySearch(self.decompressed_chunk, val).ok)
    ELSE IF self.decompressed_chunk_idx # None
            /\ val = self.decompressed_chunk[BLOCK_LEN]
    THEN Answer(self, TRUE)
    ELSE SearchAndDecode(postings, self, val)

\* a plausible slip: the assertion written with >=
CheckMonotonic_ge(self, val) ==
    IF self.last_checked # None /\ ~(val >= self.last_checked[1])
    THEN [failed |-> TRUE, last_checked |-> self.last_checked]
    ELSE [failed |-> FALSE, last_checked |-> Some(val)]

\* lines 252-259 of contains, the cfg(test) block: failed is the assertion
\* failing, last_checked the field after the block
CheckMonotonic(self, val) ==
    IF self.last_checked # None /\ ~(val > self.last_checked[1])
    THEN [failed |-> TRUE, last_checked |-> self.last_checked]
    ELSE [failed |-> FALSE, last_checked |-> Some(val)]

----------------------------------------------------------------------------
(* The state machine *)

\* a list is created empty (Default) or by new(d0)
Init ==
    /\ list \in {PostingList_default} \cup {PostingList_new(d) : d \in DocIds}
    /\ members = {list[i] : i \in 1..Len(list)}
    /\ compressed = None
    /\ visitor = None
    /\ out = [op |-> "init"]

Insert(d) ==
    /\ compressed = None
    /\ list' = PostingList_insert(list, d)
    /\ members' = members \cup {d}
    /\ out' = [op |-> "insert", val |-> d, present |-> d \in members]
    /\ UNCHANGED <<compressed, visitor>>

Remove(d) ==
    /\ compressed = None
    /\ list' = PostingList_remove(list, d)
    /\ members' = members \ {d}
    /\ out' = [op |-> "remove", val |-> d, present |-> d \in members]
    /\ UNCHANGED <<compressed, visitor>>

\* CompressedPostingList::new(list): list is moved into it, and stays here as
\* the P the compressed list was built from
Compress ==
    /\ compressed = None
    /\ LET r == CompressedPostingList_new(list)
       IN  /\ compressed' = IF r.panic THEN None ELSE Some(r.self)
           /\ out' = [op |-> "new", panic |-> r.panic]
    /\ UNCHANGED <<list, members, visitor>>

\* The stateless queries read the immutable compressed list only and leave the
\* visitor alone, so the model issues them before a visitor is opened.
Contains(v) ==
    /\ compressed # None
    /\ visitor = None
    /\ out' = [op |-> "contains", val |-> v,
               ret |-> CompressedPostingList_contains(compressed[1], v),
               decoded |-> ContainsRun(compressed[1], v).decoded,
               panic |-> ContainsRun(compressed[1], v).panic]
    /\ UNCHANGED <<list, members, compressed, visitor>>

Iter ==
    /\ compressed # None
    /\ visitor = None
    /\ out' = [op |-> "iter", ret |-> CompressedPostingList_iter(compressed[1])]
    /\ UNCHANGED <<list, members, compressed, visitor>>

\* a mutable list filled by insert from the elements s yields, in order
RECURSIVE Collect(_, _)
Collect(l, s) ==
    IF s = <<>> THEN l ELSE Collect(PostingList_insert(l, Head(s)), Tail(s))

\* compress the list collected from iter() again
Recompress ==
    /\ compressed # None
    /\ visitor = None
    /\ LET q == Collect(PostingList_default,
                        CompressedPostingList_iter(compressed[1]))
           r == CompressedPostingList_new(q)
       IN  out' = [op |-> "recompress", q |-> q, panic |-> r.panic,
                   ret |-> r.self]
    /\ UNCHANGED <<list, members, compressed, visitor>>

VisitorNew ==
    /\ compressed # None
    /\ visitor' = Some(CompressedPostingVisitor_new)
    /\ out' = [op |-> "visitor"]
    /\ UNCHANGED <<list, members, compressed>>

\* CompressedPostingVisitor::contains(v) in a build without the assertion
Probe(v) ==
    /\ visitor # None
    /\ LET r == CompressedPostingVisitor_contains(compressed[1], visitor[1], v)
       IN  /\ visitor' =
                 IF r.panic THEN None
                 ELSE Some([decompressed_chunk     |-> r.decompressed_chunk,
                            decompressed_chunk_idx |-> r.decompressed_chunk_idx,
                            last_checked           |-> Some(v)])
           /\ out' = [op |-> "visit", val |-> v, ret |-> r.ret,
                      panic |-> r.panic, start |-> r.start, found |-> r.found,
                      decoded |-> r.decoded, pre |-> visitor[1]]
    /\ UNCHANGED <<list, members, compressed>>

\* CompressedPostingVisitor::contains(v) in a cfg(test) build: a failed
\* assertion panics before anything else is done, and the visitor is lost
ProbeChecked(v) ==
    /\ visitor # None
    /\ LET c == CheckMonotonic(visitor[1], v)
           r == CompressedPostingVisitor_contains(compressed[1], visitor[1], v)
       IN  IF c.failed
           THEN /\ visitor' = None
                /\ out' = [op |-> "visit_checked", val |-> v, failed |-> TRUE,
                           answered |-> FALSE, pre |-> visitor[1]]
           ELSE /\ visitor' =
                      IF r.panic THEN None
                      ELSE Some([decompressed_chunk     |-> r.decompressed_chunk,
                                 decompressed_chunk_idx |->
                                     r.decompressed_chunk_idx,
                                 last_checked           |-> c.last_checked])
                /\ out' = [op |-> "visit_checked", val |-> v, failed |-> FALSE,
                           answered |-> ~r.panic, ret |-> r.ret,
                           pre |-> visitor[1]]
    /\ UNCHANGED <<list, members, compressed>>

\* the caller keeps the contract: each probe is greater than the one before
MonotonicProbe(v) ==
    /\ visitor # None
    /\ visitor[1].last_checked # None => v > visitor[1].last_checked[1]
    /\ Probe(v)

Next ==
    \/ \E d \in DocIds : Insert(d)
    \/ \E d \in DocIds : Remove(d)
    \/ Compress
    \/ \E v \in DocIds : Contains(v)
    \/ Iter
    \/ Recompress
    \/ VisitorNew
    \/ \E v \in DocIds : MonotonicProbe(v)

Spec == Init /\ [][Next]_vars

\* the same program with a caller that probes in any order
NextAnyOrder ==
    \/ \E d \in DocIds : Insert(d)
    \/ \E d \in DocIds : Remove(d)
    \/ Compress
    \/ \E v \in DocIds : Contains(v)
    \/ VisitorNew
    \/ \E v \in DocIds : Probe(v)

SpecAnyOrder == Init /\ [][NextAnyOrder]_vars

\* the cfg(test) build with a caller that probes in any order
NextChecked ==
    \/ \E d \in DocIds : Insert(d)
    \/ \E d \in DocIds : Remove(d)
    \/ Compress
    \/ VisitorNew
    \/ \E v \in DocIds : ProbeChecked(v)

SpecChecked == Init /\ [][NextChecked]_vars

----------------------------------------------------------------------------
(* Properties *)

\* the elements of a list, and the ascending enumeration of a set
Elems(l) == {l[i] : i \in 1..Len(l)}

RECURSIVE Ascending(_)
Ascending(S) ==
    IF S = {} THEN <<>>
    ELSE LET m == CHOOSE x \in S : \A y \in S : x <= y
         IN  <<m>> \o Ascending(S \ {m})

\* the greatest chunk index whose initial is <= v, if there is one
Candidate(self, v) ==
    LET I == {i \in 0..(Len(self.chunks) - 1) : self.chunks[i + 1].initial <= v}
    IN  IF I = {} THEN None ELSE Some(MaxOf(I))

NumChunks == IF compressed = None THEN 0 ELSE Len(compressed[1].chunks)

\* C1: every answer of a visitor probed in strictly increasing order is
\* P.contains(v), P being the list the compressed list was built from.
C1_VisitorAgreesWithList ==
    out.op = "visit" => out.ret = PostingList_contains(list, out.val)

\* C2: the stateless contains of the compressed list answers P.contains(v)
\* for every DocId v, the empty list included.
C2_ContainsAgreesWithList ==
    out.op = "contains" => out.ret = PostingList_contains(list, out.val)

C2_Witness ==
    /\ out.op = "contains"
    /\ out.ret
    /\ NumChunks >= 3
    /\ Candidate(compressed[1], out.val) = Some(2)
    /\ compressed[1].chunks[3].initial # out.val

\* C3: iter() of the compressed list yields exactly P.len() DocIds, the
\* elements of P in ascending order, and no padding element.
C3_IterYieldsList ==
    out.op = "iter" =>
        /\ Len(out.ret) = PostingList_len(list)
        /\ out.ret = PostingList_iter(list)

C3_Witness ==
    /\ out.op = "iter"
    /\ Len(list) > BLOCK_LEN
    /\ Len(list) % BLOCK_LEN # 0

\* C4: after any inserts and removes the list is strictly increasing, so it
\* holds no DocId twice.
C4_StrictlyIncreasing ==
    \A i \in 1..Len(list) : \A j \in 1..Len(list) : i < j => list[i] < list[j]

C4_Witness ==
    /\ out.op = "insert"
    /\ ~out.present
    /\ Len(list) >= 3
    /\ out.val = list[2]

\* C5: the list is the ascending enumeration of the set kept by add and
\* delete, len() its cardinality and contains(d) its membership.
C5_RefinesSet ==
    /\ PostingList_iter(list) = Ascending(members)
    /\ PostingList_len(list) = Cardinality(members)
    /\ \A d \in DocIds : PostingList_contains(list, d) <=> d \in members

C5_Witness ==
    /\ out.op = "remove"
    /\ ~out.present
    /\ Len(list) >= 2
    /\ out.val < list[Len(list)]

\* C6: the compressed list stores len = P.len() and, for a non-empty P,
\* last_doc_id = max(P).
C6_LenAndLastDocId ==
    compressed # None =>
        /\ CompressedPostingList_len(compressed[1]) = PostingList_len(list)
        /\ list # <<>> => compressed[1].last_doc_id = MaxOf(Elems(list))

C6_Witness ==
    /\ compressed # None
    /\ Len(list) > BLOCK_LEN
    /\ Len(list) % BLOCK_LEN # 0

\* C7: compressing the list collected from iter() gives the same len,
\* last_doc_id, chunk directory and arena as the compressed list itself.
C7_RecompressIdentical ==
    out.op = "recompress" =>
        /\ ~out.panic
        /\ out.ret.len = compressed[1].len
        /\ out.ret.last_doc_id = compressed[1].last_doc_id
        /\ out.ret.chunks = compressed[1].chunks
        /\ out.ret.data = compressed[1].data

C7_Witness ==
    /\ out.op = "recompress"
    /\ NumChunks >= 2
    /\ Len(list) % BLOCK_LEN # 0
    /\ Len(compressed[1].data) > 0

\* C8: without the assertion a probe never panics, whatever the order of the
\* probes: the slice start given to find_chunk is <= chunks.len() and every
\* chunk index used is < chunks.len().
C8_VisitorTotal ==
    out.op = "visit" =>
        /\ ~out.panic
        /\ out.start # None => out.start[1] <= NumChunks
        /\ out.found # None => out.found[1] < NumChunks

C8_Witness ==
    /\ out.op = "visit"
    /\ out.pre.last_checked # None
    /\ out.val < out.pre.last_checked[1]
    /\ out.start # None
    /\ out.start[1] >= 1
    /\ out.decoded

\* C9: a directory search started at the cached chunk s, for an in-range v
\* greater than the last element of block s, returns the greatest absolute
\* chunk index whose initial is <= v.
C9_SearchFromCachedFindsCandidate ==
    /\ out.op = "visit"
    /\ out.pre.decompressed_chunk_idx # None
    /\ out.start # None
    /\ is_in_postings_range(compressed[1], out.val)
    /\ out.val > decompress_chunk(compressed[1],
                     out.pre.decompressed_chunk_idx[1])[BLOCK_LEN]
    => out.found = Candidate(compressed[1], out.val)

\* C10: under strictly increasing probes the cached chunk index never
\* decreases.
C10_CachedIndexNeverDecreases ==
    /\ out.op = "visit"
    /\ out.pre.decompressed_chunk_idx # None
    /\ visitor # None
    /\ visitor[1].decompressed_chunk_idx # None
    => visitor[1].decompressed_chunk_idx[1] >= out.pre.decompressed_chunk_idx[1]

\* block k (from 1) of P after padding: P cut into runs of BLOCK_LEN DocIds,
\* the last run filled up with the last DocId of P
PaddedBlock(l, k) ==
    [j \in 1..BLOCK_LEN |->
        LET at == (k - 1) * BLOCK_LEN + j
        IN  IF at <= Len(l) THEN l[at] ELSE l[Len(l)]]

\* the real DocIds of the last block of P
LastReal(l) == SubSeq(l, ((Len(l) - 1) \div BLOCK_LEN) * BLOCK_LEN + 1, Len(l))

\* the size of chunk i (from 0) as the directory gives it
DirSize(self, i) ==
    IF i + 1 < Len(self.chunks)
    THEN self.chunks[i + 2].offset - self.chunks[i + 1].offset
    ELSE Len(self.data) - self.chunks[i + 1].offset

NonDecreasing(s) == \A i \in 1..(Len(s) - 1) : s[i] <= s[i + 1]

\* whether v is outside [chunks[0].initial, last_doc_id], or the list empty
OutOfRange(self, v) ==
    \/ Len(self.chunks) = 0
    \/ v < self.chunks[1].initial
    \/ v > self.last_doc_id

\* C11 as claimed: len = 0, an empty chunk directory and an empty arena are
\* equivalent, also for a list of a single DocId.
C11_EmptinessEquivalent ==
    compressed # None =>
        /\ compressed[1].len = 0 <=> compressed[1].chunks = <<>>
        /\ compressed[1].chunks = <<>> <=> compressed[1].data = <<>>

\* C11 as amended: len = 0 iff the chunk directory is empty, and the arena is
\* empty iff len <= 1 (the one block of a single DocId has bit width 0).
C11_EmptinessAmended ==
    compressed # None =>
        /\ compressed[1].len = 0 <=> compressed[1].chunks = <<>>
        /\ compressed[1].data = <<>> <=> compressed[1].len <= 1

C11_Witness ==
    /\ compressed # None
    /\ compressed[1].len = 1
    /\ Len(compressed[1].chunks) = 1
    /\ compressed[1].data = <<>>

\* C12: whenever the visitor caches chunk index i, its scratch buffer is the
\* decoding of block i of the compressed list.
C12_ScratchIsCachedBlock ==
    (visitor # None /\ visitor[1].decompressed_chunk_idx # None) =>
        /\ visitor[1].decompressed_chunk_idx[1] < NumChunks
        /\ visitor[1].decompressed_chunk =
               decompress_chunk(compressed[1],
                                visitor[1].decompressed_chunk_idx[1])

C12_Witness ==
    /\ out.op = "visit"
    /\ out.decoded
    /\ out.pre.decompressed_chunk_idx # None
    /\ visitor # None
    /\ visitor[1].decompressed_chunk_idx # out.pre.decompressed_chunk_idx
    /\ out.found # None
    /\ out.start # None /\ out.start[1] >= 1

\* C13: for every chunk the size the directory gives, divided by the block
\* length, is the bit width of its padded block, decoding the chunk gives the
\* padded block back, and new never panics on its round-trip check.
C13_WidthFromDirectory ==
    /\ out.op = "new" => ~out.panic
    /\ compressed # None =>
           \A i \in 0..(NumChunks - 1) :
               LET block == PaddedBlock(list, i + 1)
               IN  /\ DirSize(compressed[1], i) \div BLOCK_LEN
                          = num_bits_sorted(block[1], block)
                   /\ DirSize(compressed[1], i)
                          = BLOCK_LEN * num_bits_sorted(block[1], block)
                   /\ decompress_chunk(compressed[1], i) = block

C13_Witness ==
    /\ compressed # None
    /\ NumChunks >= 3
    /\ DirSize(compressed[1], 0) # DirSize(compressed[1], 1)
    /\ DirSize(compressed[1], 1) > 0
    /\ DirSize(compressed[1], NumChunks - 1) > 0
    /\ Len(list) % BLOCK_LEN # 0

\* C14: in the chunk directory the initial values and the offsets are both
\* strictly increasing with the chunk index.
C14_DirectoryStrictlyIncreasing ==
    compressed # None =>
        \A i \in 1..NumChunks : \A j \in 1..NumChunks :
            i < j => /\ compressed[1].chunks[i].initial
                            < compressed[1].chunks[j].initial
                     /\ compressed[1].chunks[i].offset
                            < compressed[1].chunks[j].offset

C14_Witness ==
    /\ compressed # None
    /\ NumChunks >= 3
    /\ DirSize(compressed[1], NumChunks - 1) = 0

\* C15: the padded last block is non-decreasing and its stored bit width is
\* the width its real DocIds need alone, 0 for a single real DocId.
C15_PaddingKeepsWidth ==
    (compressed # None /\ list # <<>>) =>
        LET stored == decompress_chunk(compressed[1], NumChunks - 1)
            width  == DirSize(compressed[1], NumChunks - 1) \div BLOCK_LEN
            real   == LastReal(list)
        IN  /\ NonDecreasing(stored)
            /\ SubSeq(stored, 1, Len(real)) = real
            /\ width = num_bits_sorted(real[1], real)
            /\ Len(real) = 1 => width = 0

C15_Witness ==
    /\ compressed # None
    /\ NumChunks >= 2
    /\ Len(LastReal(list)) >= 2
    /\ Len(LastReal(list)) < BLOCK_LEN
    /\ DirSize(compressed[1], NumChunks - 1) \div BLOCK_LEN >= 2

\* C16: under strictly increasing probes, a probe v <= the last element of
\* the scratch buffer of a visitor that caches chunk i leaves the cached index
\* and the buffer as they are, decodes nothing, is >= chunks[i].initial and is
\* answered P.contains(v).
C16_AnsweredFromScratch ==
    /\ out.op = "visit"
    /\ out.pre.decompressed_chunk_idx # None
    /\ out.val <= out.pre.decompressed_chunk[BLOCK_LEN]
    => /\ visitor # None
       /\ visitor[1].decompressed_chunk_idx = out.pre.decompressed_chunk_idx
       /\ visitor[1].decompressed_chunk = out.pre.decompressed_chunk
       /\ ~out.decoded
       /\ out.start = None
       /\ out.val >= compressed[1].chunks[
                        out.pre.decompressed_chunk_idx[1] + 1].initial
       /\ out.ret = PostingList_contains(list, out.val)

C16_Witness ==
    /\ out.op = "visit"
    /\ out.pre.decompressed_chunk_idx # None
    /\ out.pre.decompressed_chunk_idx[1] >= 1
    /\ out.val < out.pre.decompressed_chunk[BLOCK_LEN]
    /\ out.ret

\* C17: a probe outside [chunks[0].initial, last_doc_id], or on an empty list,
\* is answered false; the visitor keeps its cached index and scratch buffer,
\* whatever its state, and the stateless contains decodes nothing.
C17_OutOfRangeIsFalse ==
    /\ (out.op = "visit" /\ OutOfRange(compressed[1], out.val)) =>
           /\ ~out.ret
           /\ ~out.panic
           /\ ~out.decoded
           /\ visitor # None
           /\ visitor[1].decompressed_chunk_idx = out.pre.decompressed_chunk_idx
           /\ visitor[1].decompressed_chunk = out.pre.decompressed_chunk
    /\ (out.op = "contains" /\ OutOfRange(compressed[1], out.val)) =>
           /\ ~out.ret
           /\ ~out.decoded
           /\ ~out.panic

C17_Witness ==
    /\ out.op = "visit"
    /\ out.pre.decompressed_chunk_idx # None
    /\ out.val > compressed[1].last_doc_id
    /\ out.val <= MaxDocId

\* C18: in a cfg(test) build every probe that passes the assertion is
\* recorded as last_checked, also one the range gate rejects; a probe not
\* greater than the recorded one fails the assertion and gets no answer; the
\* first probe of a fresh visitor never fails.
C18_MonotonicityAssertion ==
    out.op = "visit_checked" =>
        /\ out.pre.last_checked = None => ~out.failed
        /\ out.pre.last_checked # None =>
               (out.failed <=> out.val <= out.pre.last_checked[1])
        /\ out.failed => (~out.answered /\ visitor = None)
        /\ ~out.failed =>
               /\ out.answered
               /\ visitor # None
               /\ visitor[1].last_checked = Some(out.val)

C18_Witness ==
    /\ out.op = "visit_checked"
    /\ out.failed
    /\ out.pre.last_checked = Some(out.val)
    /\ OutOfRange(compressed[1], out.val)
    /\ NumChunks >= 1

\* C19: whatever the order of the probes, an answer true of the visitor is
\* right: v is in P.
C19_NoFalsePositive ==
    (out.op = "visit" /\ out.ret) => PostingList_contains(list, out.val)

C19_Witness ==
    /\ out.op = "visit"
    /\ out.ret
    /\ out.pre.decompressed_chunk_idx # None
    /\ out.pre.last_checked # None
    /\ out.val < out.pre.last_checked[1]
    /\ out.decoded

====
